---- MODULE Spec2Model ----
(***************************************************************************)
(* python-ssdb: the blocking client (ssdb/client.pyx), its connection and  *)
(* connection pool (ssdb/connection.pyx, the second part of                *)
(* core/interface.pyx) and the frame parser (ssdb/core/parser.pyx).        *)
(*                                                                         *)
(* Threads call SSDB.execute_command and SSDB.close on one client.  A      *)
(* lock-protected section of the pool is one step; every socket operation  *)
(* (connect, send, recv) is a step of its own, so other threads and the    *)
(* server interleave exactly where the code can be suspended.  The server  *)
(* side of each socket is the environment: it answers a command with one   *)
(* frame and may die at any moment after having sent only a prefix of its  *)
(* answer.  Bytes carry, next to their value, the thread whose command     *)
(* they answer (0: nobody's current command), a history tag that the       *)
(* program never reads.  Exceptions propagate out of the cdef methods      *)
(* declared without an except clause (send_command, release), as they do   *)
(* in a build with Cython 3 and in the asyncio twin of this code.          *)
(***************************************************************************)
EXTENDS Integers, Sequences, FiniteSets, TLC

\* ------------------------------------------------------------------ bounds
NThreads == 2        \* threads calling into the one client
MaxConnObjs == 2     \* Connection objects the model lets the pool construct
MaxPoolArg == 1      \* largest max_connections argument tried (0: unbounded)
MaxBuf == 12         \* parse buffer length up to which the model follows recv
MaxCutBack == 1      \* bytes a dying server may leave unsent at the end of its answer
MaxWire == 8         \* unreceived bytes on a socket up to which the server answers
MaxAvail == 2        \* length of available up to which asyncio tasks start a lease
MaxBlobs == 2        \* blobs of a frame fed to the parser on its own
MaxArgs == 2         \* arguments of an encoded command
MaxPairs == 2        \* pairs of a map and elements of a list in a response
MaxBody == 2         \* blobs after the status of a response of any status
MaxChunks == 3       \* chunks in a buffer up to which more is fed

INT32_MAX == 2147483647

Threads == 1..NThreads
Conns == 1..MaxConnObjs

\* ------------------------------------------------------------------- bytes
LF == "\n"
CR == "\r"
Digits == {"0", "1", "2", "3", "4", "5", "6", "7", "8", "9"}

DigitVal(d) ==
    CASE d = "0" -> 0 [] d = "1" -> 1 [] d = "2" -> 2 [] d = "3" -> 3
      [] d = "4" -> 4 [] d = "5" -> 5 [] d = "6" -> 6 [] d = "7" -> 7
      [] d = "8" -> 8 [] d = "9" -> 9

\* what the server writes in answer to a command
OkReply == <<"2", LF, "o", "k", LF, LF>>
FailReply == <<"4", LF, "f", "a", "i", "l", LF, LF>>
Replies == {OkReply, FailReply}

Tagged(bytes, tag) == [i \in 1..Len(bytes) |-> <<bytes[i], tag>>]
BytesOf(tb) == [i \in 1..Len(tb) |-> tb[i][1]]
TagsOf(tb) == {tb[i][2] : i \in 1..Len(tb)}
Retag(tb, t) == [i \in 1..Len(tb) |-> IF tb[i][2] = t THEN <<tb[i][1], 0>> ELSE tb[i]]

\* ------------------------------------------------------------------ parser
\* atoi on the copied header: the value of the leading decimal digits
RECURSIVE AtoiAcc(_, _, _)
AtoiAcc(s, i, acc) ==
    IF i > Len(s) \/ s[i] \notin Digits THEN acc
    ELSE AtoiAcc(s, i + 1, acc * 10 + DigitVal(s[i]))

\* mutant of atoi: only the first digit counts
atoiFirstDigit(s) == IF s # <<>> /\ s[1] \in Digits THEN DigitVal(s[1]) ELSE 0

atoi(s) == AtoiAcc(s, 1, 0)

\* memchr(ptr, '\n', length): 1-based index of the first LF after offset ptr, 0 if none
memchr(b, ptr) ==
    LET hits == {i \in (ptr + 1)..Len(b) : b[i] = LF}
    IN IF hits = {} THEN 0 ELSE CHOOSE i \in hits : \A j \in hits : i <= j

EUNFINISH == [status |-> "EUNFINISH", values |-> <<>>, consumed |-> 0]
EBADFMT == [status |-> "EBADFMT", values |-> <<>>, consumed |-> 0]

\* Parser.parse: b the buffer's bytes, ptr the scan offset, values the blobs so far
RECURSIVE parse_loop(_, _, _)
parse_loop(b, ptr, values) ==
    LET length == Len(b) - ptr
        ch == memchr(b, ptr)
        dis == ch - ptr
    IN IF length <= 0 \/ ch = 0 THEN EUNFINISH
       ELSE IF dis = 1 \/ (dis = 2 /\ b[ptr + 1] = CR)
            THEN [status |-> "OK", values |-> values, consumed |-> ch]
       ELSE IF b[ptr + 1] \notin Digits THEN EBADFMT
       ELSE IF dis > 19 THEN EBADFMT
       ELSE LET sz == atoi(SubSeq(b, ptr + 1, ch - 1))
                rest == length - (dis + sz)
                p2 == ptr + dis + sz
            IN IF sz < 0 THEN EBADFMT
               ELSE IF rest < 0 \/ p2 > Len(b) THEN EUNFINISH
               ELSE IF rest >= 1 /\ b[p2 + 1] = LF
                    THEN parse_loop(b, p2 + 1, Append(values, SubSeq(b, ch + 1, ch + sz)))
               ELSE IF rest >= 2 /\ b[p2 + 1] = CR /\ b[p2 + 2] = LF
                    THEN parse_loop(b, p2 + 2, Append(values, SubSeq(b, ch + 1, ch + sz)))
               ELSE EUNFINISH

parse(b) == parse_loop(b, 0, <<>>)

\* mutant of remove: the last byte of the frame stays
removeKeepsLast(tb, size) == IF size > Len(tb) THEN <<>> ELSE SubSeq(tb, size, Len(tb))

\* Buffer.remove(size): shift the suffix to offset 0
remove(tb, size) == IF size > Len(tb) THEN <<>> ELSE SubSeq(tb, size + 1, Len(tb))

\* Reader.get on a tagged buffer: the frame (None when unfinished), the
\* buffer afterwards, and whether BadFormatError is raised.  A frame is kept
\* as a one-element sequence so that the empty frame [] differs from None.
None == <<>>
Some(x) == <<x>>

get(tb) ==
    LET r == parse(BytesOf(tb))
    IN [frame |-> IF r.status = "OK"
                  THEN Some([values |-> r.values, tags |-> TagsOf(SubSeq(tb, 1, r.consumed))])
                  ELSE None,
        buf |-> IF r.status = "OK" THEN remove(tb, r.consumed) ELSE tb,
        bad |-> r.status = "EBADFMT"]

\* ------------------------------------------------------------------- state
VARIABLES
    os_pid,                 \* os.getpid() of the running process
    pid,                    \* ConnectionPool.pid
    max_connections,        \* ConnectionPool.max_connections
    created_connections,    \* ConnectionPool.created_connections
    available_connections,  \* ConnectionPool.available_connections (list)
    in_use_connections,     \* ConnectionPool.in_use_connections (set)
    password_arg,           \* SSDB(password=...): None or the password given
    password,               \* whether connection_kwargs carries a password
    single,                 \* SSDB(single_connection_client=...)
    constructed,            \* SSDB.__init__ has returned
    connection,             \* SSDB.connection: the pinned Connection, 0 for None
    initializing,           \* asyncio SSDB.initialize: the tasks whose lease it awaits
    nconn,                  \* Connection objects constructed so far
    cpid,                   \* Connection.pid
    sock,                   \* Connection.sock: NoSock for None, else the socket and its peer
    next_response,          \* Connection.next_response
    buf,                    \* Connection.parser: the buffer's bytes
    pc,                     \* where each thread stands
    conn,                   \* execute_command / get_connection local: the Connection in hand
    attempt,                \* 1: first connect and probe of a lease, 2: after the reconnect
    leased,                 \* the thread's call obtained conn from get_connection
    event                   \* the call that ended in the last step, NoEvent if none did

poolVars == <<os_pid, pid, max_connections, created_connections,
              available_connections, in_use_connections>>
clientVars == <<password_arg, password, single, constructed, connection, initializing>>
connVars == <<nconn, cpid, sock, next_response, buf>>
threadVars == <<pc, conn, attempt, leased>>
vars == <<poolVars, clientVars, connVars, threadVars, event>>

Range(s) == {s[i] : i \in 1..Len(s)}

\* A socket: wire is what the server wrote and the client has not received
\* yet, peerClosed says the server's end is closed, authed that the server
\* accepted an auth command on it.  Where the handle is None, shut says
\* whether the disconnect that dropped it called shutdown(SHUT_RDWR).
\* opener is os.getpid() of the process whose connect() opened the socket.
NoSock == [open |-> FALSE, wire |-> <<>>, peerClosed |-> FALSE, authed |-> FALSE,
           shut |-> FALSE, opener |-> 0]
NewSock == [open |-> TRUE, wire |-> <<>>, peerClosed |-> FALSE, authed |-> FALSE,
            shut |-> FALSE, opener |-> os_pid]

\* A call of thread thread ended: it raised exception raised ("none": it
\* returned) from position at; c is the connection it had in hand, tags
\* are those of the bytes of the frame it interpreted.
NoEvent == [thread |-> 0, raised |-> "none", at |-> "none", c |-> 0, tags |-> {}]
Ended(t, e, tg) == [thread |-> t, raised |-> e, at |-> pc[t], c |-> conn[t], tags |-> tg]

\* Connection.is_connected
is_connected(c) == sock[c].open

\* ConnectionPool.__init__: max_connections if max_connections > 0 else INT32_MAX
InitMax(arg) == IF arg > 0 THEN arg ELSE INT32_MAX

\* State after ConnectionPool.__init__ and the field assignments of
\* SSDB.__init__; a single-connection client still has to run the
\* get_connection() of its constructor, which thread 1 does from pc "new".
\* The constructor of the asyncio client (lazy) leases nothing.
InitClientArg(given, pw, lazy) ==
    /\ password_arg = given
    /\ os_pid = 1
    /\ pid = 1
    /\ \E arg \in 0..MaxPoolArg : max_connections = InitMax(arg)
    /\ created_connections = 0
    /\ available_connections = <<>>
    /\ in_use_connections = {}
    /\ password = pw
    /\ single \in BOOLEAN
    /\ constructed = (lazy \/ ~single)
    /\ connection = 0
    /\ initializing = {}
    /\ nconn = 0
    /\ cpid = [c \in Conns |-> 0]
    /\ sock = [c \in Conns |-> NoSock]
    /\ next_response = [c \in Conns |-> None]
    /\ buf = [c \in Conns |-> <<>>]
    /\ pc = [t \in Threads |-> IF ~constructed /\ t = 1 THEN "new" ELSE "idle"]
    /\ conn = [t \in Threads |-> 0]
    /\ attempt = [t \in Threads |-> 1]
    /\ leased = [t \in Threads |-> FALSE]
    /\ event = NoEvent

InitClient(pw, lazy) == InitClientArg(None, pw, lazy)

InitWith(pw) == InitClient(pw, FALSE)

\* SSDB.__init__ never puts password into connection_kwargs
Init == InitWith(FALSE)

\* The arguments of SSDB(...) with their defaults, password as given
SSDBArgs(given) ==
    [host |-> "localhost", port |-> 7036, password |-> given,
     socket_keepalive |-> FALSE, socket_keepalive_options |-> None,
     socket_recv_size |-> 65536, max_connections |-> 0,
     single_connection_client |-> FALSE]

\* SSDB.__init__: the dict connection_kwargs it hands to ConnectionPool
connection_kwargs(args) ==
    [k \in {"host", "port", "socket_recv_size", "socket_keepalive",
            "socket_keepalive_options"} |-> args[k]]

\* Connection.__cinit__(**connection_kwargs): self.password, None by default
Connection_password(kwargs) ==
    IF "password" \in DOMAIN kwargs THEN kwargs["password"] ELSE None

\* a client constructed without or with a password
PasswordArgs == {None, Some("secret")}

InitPassword ==
    \E given \in PasswordArgs :
        InitClientArg(given, Connection_password(connection_kwargs(SSDBArgs(given))) # None,
                      FALSE)

\* -------------------------------------------------------------------- pool
\* The pool's mutable state with the sockets of its connections, as a value
\* that the operations below transform.
PoolNow(sk) ==
    [created |-> created_connections, available |-> available_connections,
     in_use |-> in_use_connections, sock |-> sk]

SetPool(P) ==
    /\ created_connections' = P.created
    /\ available_connections' = P.available
    /\ in_use_connections' = P.in_use
    /\ sock' = P.sock
    /\ UNCHANGED <<os_pid, pid, max_connections>>

\* mutant of reset: the list of available connections survives
resetKeepsAvailable(P) == [P EXCEPT !.created = 0, !.in_use = {}]

\* ConnectionPool.reset, called by checkpid on a PID mismatch
reset(P) == [P EXCEPT !.created = 0, !.available = <<>>, !.in_use = {}]

\* mutant of checkpid: the PID is never looked at
checkpidNever(P) == P

\* ConnectionPool.checkpid: self.pid stays what it was
checkpid(P) == IF pid # os_pid THEN reset(P) ELSE P

owns_connection(c) == cpid[c] = pid

\* mutants of PoolFull: the limit is checked one too late, or not at all
PoolFullOffByOne(created, max) == created > max
PoolNeverFull(created, max) == FALSE

\* make_connection raises ConnectionError("Too many connections")
PoolFull(created, max) == created >= max

\* mutant of disconnect: shutdown whatever the PID
disconnectAlwaysShutdown(cs, sk) ==
    [c \in Conns |-> IF c \in cs /\ sk[c].open THEN [NoSock EXCEPT !.shut = TRUE] ELSE sk[c]]

\* Connection.disconnect on every connection of cs, applied to the sockets
\* sk: nothing when not connected, else shutdown in the process that made
\* the connection, close, and the handle is dropped; parser and
\* next_response stay as they are
disconnect(cs, sk) ==
    [c \in Conns |-> IF c \in cs /\ sk[c].open
                     THEN [NoSock EXCEPT !.shut = (os_pid = cpid[c])]
                     ELSE sk[c]]

\* mutant of release: the connection goes to the front of available
releasePushFront(c, P0) ==
    LET P == checkpid(P0)
        Q == [P EXCEPT !.in_use = @ \ {c}]
    IN IF owns_connection(c)
       THEN [Q EXCEPT !.available = <<c>> \o @]
       ELSE [Q EXCEPT !.created = @ - 1, !.sock = disconnect({c}, @)]

\* mutant of release: every connection is treated as another process's
releaseAsForeign(c, P0) ==
    LET P == checkpid(P0)
        Q == [P EXCEPT !.in_use = @ \ {c}]
    IN [Q EXCEPT !.created = @ - 1, !.sock = disconnect({c}, @)]

\* ConnectionPool.release(c)
release(c, P0) ==
    LET P == checkpid(P0)
        Q == [P EXCEPT !.in_use = @ \ {c}]
    IN IF owns_connection(c)
       THEN [Q EXCEPT !.available = Append(@, c)]
       ELSE [Q EXCEPT !.created = @ - 1, !.sock = disconnect({c}, @)]

\* ConnectionPool.disconnect: every connection of available and in_use
pool_disconnect(P0) ==
    LET P == checkpid(P0)
    IN [P EXCEPT !.sock = disconnect(Range(P.available) \cup P.in_use, @)]

\* the pc a thread returns to when its call ends: a failed constructor
\* leaves no client behind
Rest(t) == IF constructed THEN "idle" ELSE "dead"

\* the thread's call ends with exception e ("none": it returns)
Ends(t, e, tg) ==
    /\ pc' = [pc EXCEPT ![t] = Rest(t)]
    /\ conn' = [conn EXCEPT ![t] = 0]
    /\ attempt' = [attempt EXCEPT ![t] = 1]
    /\ leased' = [leased EXCEPT ![t] = FALSE]
    /\ event' = Ended(t, e, tg)

\* mutant of LeaseFails: the exception is raised without the release
LeaseFailsNoRelease(t, e, sk) ==
    /\ SetPool(PoolNow(sk))
    /\ Ends(t, e, {})
    /\ UNCHANGED <<clientVars, nconn, cpid>>

\* get_connection, "except Exception: self.release(connection); raise"
LeaseFails(t, e, sk) ==
    /\ SetPool(release(conn[t], PoolNow(sk)))
    /\ Ends(t, e, {})
    /\ UNCHANGED <<clientVars, nconn, cpid>>

\* A call of thread t begins: what earlier commands of t left on the wire
\* or in a buffer no longer answers t's current command.
StaleSock(t) == [c \in Conns |-> [sock[c] EXCEPT !.wire = Retag(@, t)]]
StaleBuf(t) == [c \in Conns |-> Retag(buf[c], t)]
StaleFrame(f, t) ==
    IF f = None THEN None
    ELSE Some([f[1] EXCEPT !.tags = {IF x = t THEN 0 ELSE x : x \in @}])
StaleNext(t) == [c \in Conns |-> StaleFrame(next_response[c], t)]

\* get_connection, the section under the lock (after checkpid): pop the
\* most recently released connection or make a new one, add it to in_use
LeaseLock(t) ==
    /\ \/ constructed /\ pc[t] = "idle" /\ connection = 0
       \/ ~constructed /\ pc[t] = "new"
    /\ buf' = StaleBuf(t)
    /\ next_response' = StaleNext(t)
    /\ UNCHANGED clientVars
    /\ \E P \in {checkpid(PoolNow(StaleSock(t)))} : \E n \in {Len(P.available)} :
          IF n > 0
          THEN /\ SetPool([P EXCEPT !.available = SubSeq(@, 1, n - 1),
                                    !.in_use = @ \cup {P.available[n]}])
               /\ conn' = [conn EXCEPT ![t] = P.available[n]]
               /\ pc' = [pc EXCEPT ![t] = "connect"]
               /\ leased' = [leased EXCEPT ![t] = TRUE]
               /\ event' = NoEvent
               /\ UNCHANGED <<nconn, cpid, attempt>>
          ELSE IF PoolFull(P.created, max_connections)
          THEN /\ SetPool(P)
               /\ pc' = [pc EXCEPT ![t] = Rest(t)]
               /\ event' = Ended(t, "PoolExhausted", {})
               /\ UNCHANGED <<nconn, cpid, conn, attempt, leased>>
          ELSE /\ nconn < MaxConnObjs
               /\ nconn' = nconn + 1
               /\ cpid' = [cpid EXCEPT ![nconn + 1] = os_pid]
               /\ SetPool([P EXCEPT !.created = @ + 1, !.in_use = @ \cup {nconn + 1}])
               /\ conn' = [conn EXCEPT ![t] = nconn + 1]
               /\ pc' = [pc EXCEPT ![t] = "connect"]
               /\ leased' = [leased EXCEPT ![t] = TRUE]
               /\ event' = NoEvent
               /\ UNCHANGED attempt

\* Connection.connect without a password: return at once when connected,
\* else open a socket, which may fail with socket.error
Connect(t) ==
    /\ pc[t] = "connect"
    /\ ~password \/ is_connected(conn[t])
    /\ IF is_connected(conn[t])
       THEN /\ pc' = [pc EXCEPT ![t] = "probe"]
            /\ event' = NoEvent
            /\ UNCHANGED <<poolVars, clientVars, connVars, conn, attempt, leased>>
       ELSE \/ /\ sock' = [sock EXCEPT ![conn[t]] = NewSock]
               /\ pc' = [pc EXCEPT ![t] = "probe"]
               /\ event' = NoEvent
               /\ UNCHANGED <<poolVars, clientVars, nconn, cpid, next_response, buf,
                              conn, attempt, leased>>
            \/ /\ LeaseFails(t, "IoError", sock)
               /\ UNCHANGED <<next_response, buf>>

\* Connection.connect with a password: after the socket is open,
\* send_command("auth", password); the server answers ok or with an error
\* status; a failing send raises out of connect with the socket still set
ConnectAuth(t) ==
    /\ pc[t] = "connect"
    /\ password /\ ~is_connected(conn[t])
    /\ \/ \E r \in Replies :
            /\ sock' = [sock EXCEPT ![conn[t]] =
                          [NewSock EXCEPT !.wire = Tagged(r, 0), !.authed = (r = OkReply)]]
            /\ pc' = [pc EXCEPT ![t] = "auth"]
            /\ event' = NoEvent
            /\ UNCHANGED <<poolVars, clientVars, nconn, cpid, next_response, buf,
                           conn, attempt, leased>>
       \/ /\ LeaseFails(t, "IoError", sock)
          /\ UNCHANGED <<next_response, buf>>
       \/ /\ LeaseFails(t, "IoError",
                        [sock EXCEPT ![conn[t]] = [NewSock EXCEPT !.peerClosed = TRUE]])
          /\ UNCHANGED <<next_response, buf>>

\* -------------------------------------------------------------- connection
\* One pass of Connection.read_response on connection c: take the pending
\* frame, else parse, else recv (blocking) and parse again.  kind is "frame"
\* (resp is returned), "more" (the loop goes on), "raise" or "block" (recv
\* waits: nothing on the wire and the peer still open).  recv hands over
\* all the server has written so far.
read_response(c) ==
    LET st == [kind |-> "block", frame |-> [values |-> <<>>, tags |-> {}],
               next |-> next_response[c], buf |-> buf[c], sk |-> sock[c], e |-> "none"]
        g == get(buf[c])
        fed == buf[c] \o sock[c].wire
        g2 == get(fed)
        drained == [sock[c] EXCEPT !.wire = <<>>]
    IN IF next_response[c] # None
       THEN [st EXCEPT !.kind = "frame", !.frame = next_response[c][1], !.next = None]
       ELSE IF g.bad THEN [st EXCEPT !.kind = "raise", !.e = "ProtocolError"]
       ELSE IF g.frame # None
            THEN [st EXCEPT !.kind = "frame", !.frame = g.frame[1], !.buf = g.buf]
       ELSE IF ~sock[c].open THEN [st EXCEPT !.kind = "raise", !.e = "IoError"]
       ELSE IF sock[c].wire # <<>>
            THEN IF Len(fed) > MaxBuf THEN st
                 ELSE IF g2.bad
                 THEN [st EXCEPT !.kind = "raise", !.e = "ProtocolError",
                                 !.buf = fed, !.sk = drained]
                 ELSE IF g2.frame # None
                 THEN [st EXCEPT !.kind = "frame", !.frame = g2.frame[1],
                                 !.buf = g2.buf, !.sk = drained]
                 ELSE [st EXCEPT !.kind = "more", !.buf = fed, !.sk = drained]
       ELSE IF sock[c].peerClosed THEN [st EXCEPT !.kind = "raise", !.e = "ServerClosed"]
       ELSE st

\* Connection.connect, "_ = self.read_response()" after the auth command:
\* the frame is dropped unread; any exception becomes
\* RuntimeError("Invalid password"), the socket stays as it is
AuthRead(t) ==
    /\ pc[t] = "auth"
    /\ \E c \in {conn[t]} : \E r \in {read_response(c)} :
          /\ r.kind # "block"
          /\ next_response' = [next_response EXCEPT ![c] = r.next]
          /\ buf' = [buf EXCEPT ![c] = r.buf]
          /\ IF r.kind = "raise"
             THEN LeaseFails(t, "AuthError", [sock EXCEPT ![c] = r.sk])
             ELSE /\ sock' = [sock EXCEPT ![c] = r.sk]
                  /\ pc' = [pc EXCEPT ![t] = IF r.kind = "frame" THEN "probe" ELSE "auth"]
                  /\ event' = NoEvent
                  /\ UNCHANGED <<poolVars, clientVars, nconn, cpid,
                                 conn, attempt, leased>>

\* get_connection after in_use() returned True or raised ConnectionError:
\* on the first attempt disconnect and go on to connect again, on the
\* second the lease fails with e
Retry(t, e, sk) ==
    IF attempt[t] = 1
    THEN /\ sock' = disconnect({conn[t]}, sk)
         /\ pc' = [pc EXCEPT ![t] = "connect"]
         /\ attempt' = [attempt EXCEPT ![t] = 2]
         /\ event' = NoEvent
         /\ UNCHANGED <<poolVars, clientVars, nconn, cpid, conn, leased>>
    ELSE LeaseFails(t, e, sk)

\* get_connection returns the connection: the constructor pins it, a
\* command goes on to send
Leased(t) ==
    IF constructed
    THEN /\ pc' = [pc EXCEPT ![t] = "send"]
         /\ event' = NoEvent
         /\ UNCHANGED <<clientVars, conn, attempt, leased>>
    ELSE /\ connection' = conn[t]
         /\ constructed' = TRUE
         /\ pc' = [pc EXCEPT ![t] = "idle"]
         /\ conn' = [conn EXCEPT ![t] = 0]
         /\ attempt' = [attempt EXCEPT ![t] = 1]
         /\ leased' = [leased EXCEPT ![t] = FALSE]
         /\ event' = Ended(t, "none", {})
         /\ UNCHANGED <<password_arg, password, single, initializing>>

\* Connection.in_use, the probe of get_connection: a pending or parsable
\* frame or received bytes mean True; a recv that would block means False;
\* a recv of 0 bytes raises ConnectionError after disconnecting
Probe(t) ==
    /\ pc[t] = "probe"
    /\ \E c \in {conn[t]} :
       \E g \in {IF next_response[c] = None THEN get(buf[c])
                 ELSE [frame |-> next_response[c], buf |-> buf[c], bad |-> FALSE]} :
       \E fed \in {buf[c] \o sock[c].wire} :
          IF g.bad
          THEN /\ LeaseFails(t, "ProtocolError", sock)
               /\ UNCHANGED <<next_response, buf>>
          ELSE IF g.frame # None
          THEN /\ next_response' = [next_response EXCEPT ![c] = g.frame]
               /\ buf' = [buf EXCEPT ![c] = g.buf]
               /\ Retry(t, "ConnectionNotReady", sock)
          ELSE IF ~sock[c].open
          THEN /\ LeaseFails(t, "IoError", sock)
               /\ UNCHANGED <<next_response, buf>>
          ELSE IF sock[c].wire # <<>>
          THEN /\ Len(fed) <= MaxBuf
               /\ buf' = [buf EXCEPT ![c] = fed]
               /\ UNCHANGED next_response
               /\ Retry(t, "ConnectionNotReady", [sock EXCEPT ![c].wire = <<>>])
          ELSE IF sock[c].peerClosed
          THEN /\ UNCHANGED <<next_response, buf>>
               /\ Retry(t, "ServerClosed", disconnect({c}, sock))
          ELSE /\ Leased(t)
               /\ UNCHANGED <<poolVars, nconn, cpid, sock, next_response, buf>>

\* ------------------------------------------------------------------ client
\* wrap_response for a command of the NO_RESPONSE class (ping): the
\* exception it raises, "none" when it returns
wrap_response(values) ==
    IF Len(values) = 0 THEN "ConnectionClosed"
    ELSE IF values[1] = <<"n", "o", "t", "_", "f", "o", "u", "n", "d">> THEN "none"
    ELSE IF values[1] = <<"o", "k">> THEN "none"
    ELSE "RemoteError"

\* execute_command, "conn = self.connection or pool.get_connection()" with a
\* pinned connection
ExecPinned(t) ==
    /\ constructed /\ pc[t] = "idle" /\ connection # 0
    /\ conn' = [conn EXCEPT ![t] = connection]
    /\ pc' = [pc EXCEPT ![t] = "send"]
    /\ event' = NoEvent
    /\ sock' = StaleSock(t)
    /\ buf' = StaleBuf(t)
    /\ next_response' = StaleNext(t)
    /\ UNCHANGED <<poolVars, clientVars, nconn, cpid, attempt, leased>>

\* execute_command, "conn.send_command(cmd, args)", which stands before the
\* try: an exception leaves execute_command without the finally clause.
\* sendall on a socket whose peer is gone may raise or may still succeed.
Send(t) ==
    /\ pc[t] = "send"
    /\ \E c \in {conn[t]} :
          \/ /\ sock[c].open /\ ~sock[c].peerClosed
             /\ \E r \in Replies :
                  /\ Len(sock[c].wire) + Len(r) <= MaxWire
                  /\ sock' = [sock EXCEPT ![c].wire = @ \o Tagged(r, t)]
             /\ pc' = [pc EXCEPT ![t] = "read"]
             /\ event' = NoEvent
             /\ UNCHANGED <<conn, attempt, leased>>
          \/ /\ sock[c].open /\ sock[c].peerClosed
             /\ pc' = [pc EXCEPT ![t] = "read"]
             /\ event' = NoEvent
             /\ UNCHANGED <<sock, conn, attempt, leased>>
          \/ /\ ~sock[c].open \/ sock[c].peerClosed
             /\ Ends(t, "IoError", {})
             /\ UNCHANGED sock
    /\ UNCHANGED <<poolVars, clientVars, nconn, cpid, next_response, buf>>

\* execute_command, the finally clause
Finally(t, sk) ==
    IF connection = 0
    THEN SetPool(release(conn[t], PoolNow(sk)))
    ELSE /\ sock' = sk
         /\ UNCHANGED poolVars

\* execute_command, "wrap_response(cmd, conn.read_response())" and the
\* finally clause
Read(t) ==
    /\ pc[t] = "read"
    /\ \E c \in {conn[t]} : \E r \in {read_response(c)} :
          /\ r.kind # "block"
          /\ next_response' = [next_response EXCEPT ![c] = r.next]
          /\ buf' = [buf EXCEPT ![c] = r.buf]
          /\ UNCHANGED <<clientVars, nconn, cpid>>
          /\ CASE r.kind = "more" ->
                    /\ sock' = [sock EXCEPT ![c] = r.sk]
                    /\ event' = NoEvent
                    /\ UNCHANGED <<poolVars, threadVars>>
               [] r.kind = "frame" ->
                    /\ Finally(t, [sock EXCEPT ![c] = r.sk])
                    /\ Ends(t, wrap_response(r.frame.values), r.frame.tags)
               [] r.kind = "raise" ->
                    /\ Finally(t, [sock EXCEPT ![c] = r.sk])
                    /\ Ends(t, r.e, {})

\* SSDB.close: release the pinned connection, then ConnectionPool.disconnect
Close(t) ==
    /\ constructed /\ pc[t] = "idle"
    /\ connection' = 0
    /\ SetPool(pool_disconnect(IF connection # 0
                               THEN release(connection, PoolNow(sock))
                               ELSE PoolNow(sock)))
    /\ event' = NoEvent
    /\ UNCHANGED <<password_arg, password, single, constructed, initializing, nconn, cpid,
                   next_response, buf,
                   pc, conn, attempt, leased>>

\* ------------------------------------------------------------- environment
\* The server's end of a socket goes away, having sent only the first k
\* bytes of what it had to send: nothing, or all but at most the last
\* MaxCutBack bytes.
Cuts(w) == {k \in 0..Len(w) : k = 0 \/ k >= Len(w) - MaxCutBack}

ServerDrop(c) ==
    /\ sock[c].open /\ ~sock[c].peerClosed
    /\ \E k \in Cuts(sock[c].wire) :
         sock' = [sock EXCEPT ![c] = [@ EXCEPT !.wire = SubSeq(@, 1, k), !.peerClosed = TRUE]]
    /\ event' = NoEvent
    /\ UNCHANGED <<poolVars, clientVars, nconn, cpid, next_response, buf, threadVars>>

\* ----------------------------------------------------------- specification
Next ==
    \/ \E t \in Threads : LeaseLock(t)
    \/ \E t \in Threads : Connect(t)
    \/ \E t \in Threads : Probe(t)
    \/ \E t \in Threads : ExecPinned(t)
    \/ \E t \in Threads : Send(t)
    \/ \E t \in Threads : Read(t)
    \/ \E t \in Threads : Close(t)
    \/ \E c \in Conns : ServerDrop(c)

Spec == Init /\ [][Next]_vars

\* a pool built with a password in connection_kwargs
InitAuth == InitWith(TRUE)

NextAuth ==
    \/ Next
    \/ \E t \in Threads : ConnectAuth(t)
    \/ \E t \in Threads : AuthRead(t)

SpecAuth == InitAuth /\ [][NextAuth]_vars

\* the same program against a server that never goes away
NextReliable ==
    \/ \E t \in Threads : LeaseLock(t)
    \/ \E t \in Threads : Connect(t)
    \/ \E t \in Threads : Probe(t)
    \/ \E t \in Threads : ExecPinned(t)
    \/ \E t \in Threads : Send(t)
    \/ \E t \in Threads : Read(t)
    \/ \E t \in Threads : Close(t)

SpecReliable == Init /\ [][NextReliable]_vars

SpecPassword == InitPassword /\ [][NextReliable]_vars

\* a pooled client with one caller, which never calls close()
InitPooled == Init /\ ~single

NextPooled ==
    \/ LeaseLock(1)
    \/ Connect(1)
    \/ Probe(1)
    \/ Send(1)
    \/ Read(1)
    \/ \E c \in Conns : ServerDrop(c)

SpecPooled == InitPooled /\ [][NextPooled]_vars

\* ------------------------------------------------------------------ asyncio
\* The asyncio client (ssdb/asyncio): tasks of one event loop in place of
\* threads.  Its connect, send_command, read_response, release, close and
\* execute_command (after initialize) are line for line those of the
\* blocking client with awaits at the socket operations, and are modelled
\* by the actions above; what differs is modelled below.

\* asyncio SSDB.initialize and execute_command, up to the end of the lock
\* section of get_connection: a single-connection client without a pinned
\* connection leases one to pin, any other lease is that of a command
AsyncLeaseLock(t) ==
    /\ constructed /\ pc[t] = "idle" /\ connection = 0
    /\ Len(available_connections) <= MaxAvail
    /\ buf' = StaleBuf(t)
    /\ next_response' = StaleNext(t)
    /\ initializing' = IF single THEN initializing \cup {t} ELSE initializing \ {t}
    /\ UNCHANGED <<password_arg, password, single, constructed, connection>>
    /\ \E P \in {checkpid(PoolNow(StaleSock(t)))} : \E n \in {Len(P.available)} :
          IF n > 0
          THEN /\ SetPool([P EXCEPT !.available = SubSeq(@, 1, n - 1),
                                    !.in_use = @ \cup {P.available[n]}])
               /\ conn' = [conn EXCEPT ![t] = P.available[n]]
               /\ pc' = [pc EXCEPT ![t] = "connect"]
               /\ leased' = [leased EXCEPT ![t] = TRUE]
               /\ event' = NoEvent
               /\ UNCHANGED <<nconn, cpid, attempt>>
          ELSE IF PoolFull(P.created, max_connections)
          THEN /\ SetPool(P)
               /\ pc' = [pc EXCEPT ![t] = "idle"]
               /\ event' = Ended(t, "PoolExhausted", {})
               /\ UNCHANGED <<nconn, cpid, conn, attempt, leased>>
          ELSE /\ nconn < MaxConnObjs
               /\ nconn' = nconn + 1
               /\ cpid' = [cpid EXCEPT ![nconn + 1] = os_pid]
               /\ SetPool([P EXCEPT !.created = @ + 1, !.in_use = @ \cup {nconn + 1}])
               /\ conn' = [conn EXCEPT ![t] = nconn + 1]
               /\ pc' = [pc EXCEPT ![t] = "connect"]
               /\ leased' = [leased EXCEPT ![t] = TRUE]
               /\ event' = NoEvent
               /\ UNCHANGED attempt

\* get_connection returns: initialize assigns the connection to
\* self.connection, whatever is there, and returns to its caller -
\* execute_command, which goes on to send on self.connection, or the
\* program, which awaited the client itself; a command's lease goes on to send
AsyncLeased(t) ==
    IF t \in initializing
    THEN /\ connection' = conn[t]
         /\ initializing' = initializing \ {t}
         /\ leased' = [leased EXCEPT ![t] = FALSE]
         /\ UNCHANGED <<password_arg, password, single, constructed, attempt>>
         /\ \/ /\ pc' = [pc EXCEPT ![t] = "send"]
               /\ event' = NoEvent
               /\ UNCHANGED conn
            \/ /\ pc' = [pc EXCEPT ![t] = "idle"]
               /\ conn' = [conn EXCEPT ![t] = 0]
               /\ event' = Ended(t, "none", {})
    ELSE /\ pc' = [pc EXCEPT ![t] = "send"]
         /\ event' = NoEvent
         /\ UNCHANGED <<clientVars, conn, attempt, leased>>

\* asyncio Connection.in_use, the probe of get_connection: a pending or
\* parsable frame means True.  Otherwise read_from_socket(False) awaits
\* wait_for(reader.read(n), 0), which cancels the read before it has run and
\* raises TimeoutError: the answer is False whatever the socket holds.
AsyncProbe(t) ==
    /\ pc[t] = "probe"
    /\ \E c \in {conn[t]} :
       \E g \in {IF next_response[c] = None THEN get(buf[c])
                 ELSE [frame |-> next_response[c], buf |-> buf[c], bad |-> FALSE]} :
          IF g.bad
          THEN /\ LeaseFails(t, "ProtocolError", sock)
               /\ UNCHANGED <<next_response, buf>>
          ELSE IF g.frame # None
          THEN /\ next_response' = [next_response EXCEPT ![c] = g.frame]
               /\ buf' = [buf EXCEPT ![c] = g.buf]
               /\ Retry(t, "ConnectionNotReady", sock)
          ELSE IF ~sock[c].open
          THEN /\ LeaseFails(t, "IoError", sock)
               /\ UNCHANGED <<next_response, buf>>
          ELSE /\ AsyncLeased(t)
               /\ UNCHANGED <<poolVars, nconn, cpid, sock, next_response, buf>>

\* The task is cancelled while it is suspended.  CancelledError is not an
\* Exception: in get_connection (awaiting connect or the probe) it passes
\* "except Exception" without a release; in send_command (awaiting drain,
\* the command written) it leaves execute_command before the try; in
\* read_response it runs execute_command's finally clause.
Cancel(t) ==
    /\ pc[t] \in {"connect", "probe", "send", "read"}
    /\ Ends(t, "Cancelled", {})
    /\ UNCHANGED <<clientVars, nconn, cpid, next_response, buf>>
    /\ \E c \in {conn[t]} :
          CASE pc[t] \in {"connect", "probe"} ->
                 UNCHANGED <<poolVars, sock>>
            [] pc[t] = "send" ->
                 /\ UNCHANGED poolVars
                 /\ IF sock[c].open /\ ~sock[c].peerClosed
                    THEN \E r \in Replies :
                           /\ Len(sock[c].wire) + Len(r) <= MaxWire
                           /\ sock' = [sock EXCEPT ![c].wire = @ \o Tagged(r, t)]
                    ELSE UNCHANGED sock
            [] pc[t] = "read" ->
                 Finally(t, sock)

\* an asyncio client, nothing leased until the first use, against a server
\* that never goes away
InitAsync == InitClient(FALSE, TRUE)

NextAsync ==
    \/ \E t \in Threads : AsyncLeaseLock(t)
    \/ \E t \in Threads : Connect(t)
    \/ \E t \in Threads : AsyncProbe(t)
    \/ \E t \in Threads : ExecPinned(t)
    \/ \E t \in Threads : Send(t)
    \/ \E t \in Threads : Read(t)
    \/ \E t \in Threads : Close(t)

SpecAsync == InitAsync /\ [][NextAsync]_vars

\* the same with tasks that may be cancelled
NextCancel ==
    \/ NextAsync
    \/ \E t \in Threads : Cancel(t)

SpecCancel == InitAsync /\ [][NextCancel]_vars

\* ------------------------------------------------------------ parser alone
\* The parser of one connection fed from its socket in pieces of any size:
\* thread 1 holds connection 1 and is inside read_response; the socket
\* holds one frame, written with \n or \r\n after the headers, after the
\* blobs and at the end, followed by the first bytes of whatever comes next.
DigitChar(d) ==
    CASE d = 0 -> "0" [] d = 1 -> "1" [] d = 2 -> "2" [] d = 3 -> "3"
      [] d = 4 -> "4" [] d = 5 -> "5" [] d = 6 -> "6" [] d = 7 -> "7"
      [] d = 8 -> "8" [] d = 9 -> "9"

\* b"%d" % n for n >= 0
RECURSIVE itoa(_)
itoa(n) == IF n < 10 THEN <<DigitChar(n)>> ELSE itoa(n \div 10) \o <<DigitChar(n % 10)>>

Terminators == {<<LF>>, <<CR, LF>>}

RECURSIVE WireBlobs(_, _, _)
WireBlobs(blobs, hs, bs) ==
    IF blobs = <<>> THEN <<>>
    ELSE itoa(Len(Head(blobs))) \o hs \o Head(blobs) \o bs \o WireBlobs(Tail(blobs), hs, bs)

\* a frame on the wire: hs ends the headers, bs the blobs, fs the frame
WireFrame(blobs, hs, bs, fs) == WireBlobs(blobs, hs, bs) \o fs

SeqsUpTo(S, n) == UNION {[1..k -> S] : k \in 0..n}

\* blobs that look like frames: an empty one, a terminator, ten bytes
TenBytes == <<"1", LF, "a", LF, LF, CR, LF, "9", LF, LF>>
ParserBlobs == {<<>>, <<CR, LF>>, TenBytes}
ParserTrails == {<<>>, <<LF>>, <<"2">>, <<"1", LF, "x">>}
ParserFrames ==
    {[blobs |-> bl, bytes |-> WireFrame(bl, hs, bs, fs)] :
        bl \in SeqsUpTo(ParserBlobs, MaxBlobs), hs \in Terminators,
        bs \in Terminators, fs \in Terminators}

\* thread 1 has leased connection 1 and sent its command; the socket holds
\* the bytes wire
InitReading(wire) ==
    /\ os_pid = 1
    /\ pid = 1
    /\ max_connections = INT32_MAX
    /\ created_connections = 1
    /\ available_connections = <<>>
    /\ in_use_connections = {1}
    /\ password_arg = None
    /\ password = FALSE
    /\ single = FALSE
    /\ constructed = TRUE
    /\ connection = 0
    /\ initializing = {}
    /\ nconn = 1
    /\ cpid = [c \in Conns |-> IF c = 1 THEN 1 ELSE 0]
    /\ sock = [c \in Conns |-> IF c = 1 THEN [NewSock EXCEPT !.wire = Tagged(wire, 0)]
                                ELSE NoSock]
    /\ next_response = [c \in Conns |-> None]
    /\ buf = [c \in Conns |-> <<>>]
    /\ pc = [t \in Threads |-> IF t = 1 THEN "read" ELSE "idle"]
    /\ conn = [t \in Threads |-> IF t = 1 THEN 1 ELSE 0]
    /\ attempt = [t \in Threads |-> 1]
    /\ leased = [t \in Threads |-> t = 1]
    /\ event = NoEvent

InitParser == \E f \in ParserFrames : \E tr \in ParserTrails : InitReading(f.bytes \o tr)

\* read_from_socket: recv returns the first k >= 1 bytes that the socket
\* holds and Reader.feed appends them to the buffer
ReaderFeed(c) ==
    /\ sock[c].open /\ next_response[c] = None
    /\ \E k \in 1..Len(sock[c].wire) :
          /\ buf' = [buf EXCEPT ![c] = @ \o SubSeq(sock[c].wire, 1, k)]
          /\ sock' = [sock EXCEPT ![c].wire = SubSeq(@, k + 1, Len(@))]
    /\ event' = NoEvent
    /\ UNCHANGED <<poolVars, clientVars, nconn, cpid, next_response, threadVars>>

\* Reader.get, its result kept as in "self.next_response = self.parser.get()":
\* a frame, None (nothing changes), or BadFormatError
ReaderGet(c) ==
    /\ next_response[c] = None
    /\ \E g \in {get(buf[c])} :
          /\ g.bad \/ g.frame # None
          /\ next_response' = [next_response EXCEPT ![c] = g.frame]
          /\ buf' = [buf EXCEPT ![c] = g.buf]
          /\ event' = [NoEvent EXCEPT !.raised = IF g.bad THEN "ProtocolError" ELSE "none",
                                      !.at = "get", !.c = c]
    /\ UNCHANGED <<poolVars, clientVars, nconn, cpid, sock, threadVars>>

NextParser ==
    \/ \E c \in Conns : ReaderFeed(c)
    \/ \E c \in Conns : ReaderGet(c)

SpecParser == InitParser /\ [][NextParser]_vars

\* the pooled client against a server whose first answer is malformed:
\* a header that is no number, at once or after a whole frame
GarbledWires ==
    {<<"x", LF>>, <<"o", "k", LF, LF>>, OkReply \o <<"-", "1", LF>>,
     <<"2", LF, "o", "k", LF, "k", LF>>}

InitGarbled == \E w \in GarbledWires : InitReading(w)

NextGarbled ==
    \/ \E t \in Threads : LeaseLock(t)
    \/ \E t \in Threads : Connect(t)
    \/ \E t \in Threads : Probe(t)
    \/ \E t \in Threads : Send(t)
    \/ \E t \in Threads : Read(t)
    \/ \E t \in Threads : Close(t)

SpecGarbled == InitGarbled /\ [][NextGarbled]_vars

\* ------------------------------------------------------------------ encoder
\* An argument of a command is text (a sequence of characters), an integer
\* or bytes.  Text is ASCII characters, each its own byte, and two
\* characters outside ASCII whose UTF-8 form has two and three bytes.
EAcute == "U+00E9"
Hangul == "U+D55C"

utf8_char(ch) ==
    IF ch = EAcute THEN <<"0xC3", "0xA9">>
    ELSE IF ch = Hangul THEN <<"0xED", "0x95", "0x9C">>
    ELSE <<ch>>

\* str.encode("utf-8")
RECURSIVE str_encode(_)
str_encode(s) == IF s = <<>> THEN <<>> ELSE utf8_char(Head(s)) \o str_encode(Tail(s))

\* str(n) for an int n
str(n) == IF n < 0 THEN <<"-">> \o itoa(0 - n) ELSE itoa(n)

StrArg(s) == [type |-> "str", v |-> s]
IntArg(n) == [type |-> "int", v |-> n]
BytesArg(b) == [type |-> "bytes", v |-> b]

utf8_encode(s) ==
    LET s1 == IF s.type = "int" THEN StrArg(str(s.v)) ELSE s
    IN IF s1.type = "str" THEN str_encode(s1.v) ELSE s1.v

\* b"".join(b"%d\n%s\n" % (len(byte), byte) for byte in buf)
RECURSIVE join(_)
join(bs) ==
    IF bs = <<>> THEN <<>>
    ELSE itoa(Len(Head(bs))) \o <<LF>> \o Head(bs) \o <<LF>> \o join(Tail(bs))

Delete == <<"d", "e", "l", "e", "t", "e">>
Del == <<"d", "e", "l">>

encode_commandUnterminated(command, args) ==
    LET command1 == IF command = Delete THEN Del ELSE command
        bs == <<utf8_encode(StrArg(command1))>> \o [i \in 1..Len(args) |-> utf8_encode(args[i])]
    IN join(bs)

encode_command(command, args) ==
    LET command1 == IF command = Delete THEN Del ELSE command
        bs == <<utf8_encode(StrArg(command1))>> \o [i \in 1..Len(args) |-> utf8_encode(args[i])]
    IN join(bs) \o <<LF>>

\* the commands and arguments that are encoded, each with the bytes its
\* token is to have
EncodeNames ==
    {[name |-> Delete, token |-> Del],
     [name |-> <<"g", "e", "t">>, token |-> <<"g", "e", "t">>],
     [name |-> <<"d", "e", "l", "e", "t", "e", "d">>,
      token |-> <<"d", "e", "l", "e", "t", "e", "d">>]}
EncodeArgs ==
    {[arg |-> StrArg(<<>>), token |-> <<>>],
     [arg |-> StrArg(<<EAcute, Hangul, LF>>),
      token |-> <<"0xC3", "0xA9", "0xED", "0x95", "0x9C", LF>>],
     [arg |-> StrArg(Delete), token |-> Delete],
     [arg |-> IntArg(0), token |-> <<"0">>],
     [arg |-> IntArg(0 - 120), token |-> <<"-", "1", "2", "0">>],
     [arg |-> IntArg(1234567890),
      token |-> <<"1", "2", "3", "4", "5", "6", "7", "8", "9", "0">>],
     [arg |-> BytesArg(<<CR, LF>>), token |-> <<CR, LF>>]}
EncodeInputs ==
    {[command |-> n.name,
      args |-> [i \in 1..Len(xs) |-> xs[i].arg],
      tokens |-> <<n.token>> \o [i \in 1..Len(xs) |-> xs[i].token],
      bytes |-> encode_command(n.name, [i \in 1..Len(xs) |-> xs[i].arg])] :
        n \in EncodeNames, xs \in SeqsUpTo(EncodeArgs, MaxArgs)}

\* the output of encode_command on a socket, read by the parser
InitEncode == \E e \in EncodeInputs : InitReading(e.bytes)

SpecEncode == InitEncode /\ [][NextParser]_vars

\* ---------------------------------------------------------------- responses
REQUEST_FOR_NO_RESPONSE == {"ping", "qset"}
REQUEST_FOR_INT_RESPONSE ==
    {"auth", "dbsize", "set", "setx", "setnx", "expire", "ttl", "del", "incr", "decr",
     "exists", "getbit", "setbit", "bitcount", "countbit", "strlen", "multi_set",
     "multi_del", "hset", "hdel", "hincr", "hdecr", "hexists", "hsize", "hclear",
     "multi_hset", "multi_hdel", "zset", "zget", "zdel", "zincr", "zdecr", "zexists",
     "zsize", "zrank", "zrrank", "zclear", "zcount", "zsum", "zremrangebyrank",
     "zremrangebyscore", "multi_zset", "multi_zdel", "qsize", "qclear", "qpush",
     "qpush_front", "qpush_back", "qtrim_front", "qtrim_back"}
REQUEST_FOR_FLOAT_RESPONSE == {"zavg"}
REQUEST_FOR_BYTE_RESPONSE ==
    {"version", "get", "getset", "substr", "hget", "qfront", "qback", "qget"}
REQUEST_FOR_LIST_RESPONSE ==
    {"info", "keys", "rkeys", "hlist", "hrlist", "hkeys", "zlist", "zrlist", "zkeys",
     "qlist", "qrlist", "qrange", "qslice", "qpop", "qpop_front", "qpop_back"}
REQUEST_FOR_STR_MAP_RESPONSE == {"multi_get", "hgetall", "multi_hget"}
REQUEST_FOR_INT_MAP_RESPONSE ==
    {"multi_exists", "multi_hexists", "multi_hsize", "zrange", "zrrange", "zpop_front",
     "zpop_back", "multi_zget", "multi_zexists", "multi_zsize"}
REQUEST_FOR_STR_MAP_SCAN_RESPONSE == {"scan", "rscan", "hscan", "hrscan"}
REQUEST_FOR_INT_MAP_SCAN_RESPONSE == {"zscan", "zrscan"}

\* The values wrap_response returns.  A float is m / 10^k with k as small as
\* can be; a dict is the sequence of its <<key, value>> pairs in insertion
\* order; the tuple of a scan is (next_start, dict).
PyNone == [type |-> "None", v |-> <<>>]
PyInt(n) == [type |-> "int", v |-> n]
PyFloat(m, k) == [type |-> "float", v |-> <<m, k>>]
PyBytes(b) == [type |-> "bytes", v |-> b]
PyList(l) == [type |-> "list", v |-> l]
PyDict(d) == [type |-> "dict", v |-> d]
PyTuple(a, b) == [type |-> "tuple", v |-> <<a, b>>]

Returns(x) == [raised |-> "none", value |-> x]
Raises(e) == [raised |-> e, value |-> PyNone]

\* bytes.isdigit()
isdigit(v) == v # <<>> /\ \A i \in 1..Len(v) : v[i] \in Digits

\* the number that a string of digits writes
RECURSIVE DigitsVal(_)
DigitsVal(s) ==
    IF s = <<>> THEN 0 ELSE 10 * DigitsVal(SubSeq(s, 1, Len(s) - 1)) + DigitVal(s[Len(s)])

Unsigned(s) == IF s # <<>> /\ s[1] \in {"-", "+"} THEN Tail(s) ELSE s
Signed(s, n) == IF s # <<>> /\ s[1] = "-" THEN 0 - n ELSE n

\* int(v) of bytes v with neither blanks nor underscores: a sign, then digits
int(v) ==
    IF isdigit(Unsigned(v)) THEN Returns(PyInt(Signed(v, DigitsVal(Unsigned(v)))))
    ELSE Raises("ValueError")

RECURSIVE Normal(_, _)
Normal(m, k) == IF k > 0 /\ m % 10 = 0 THEN Normal(m \div 10, k - 1) ELSE PyFloat(m, k)

\* float(v) of bytes v in plain decimal notation: a sign, digits, and
\* perhaps a point and more digits
float(v) ==
    LET u == Unsigned(v)
        dots == {i \in 1..Len(u) : u[i] = "."}
        dot == IF dots = {} THEN Len(u) + 1 ELSE CHOOSE i \in dots : \A j \in dots : i <= j
        digs == SubSeq(u, 1, dot - 1) \o SubSeq(u, dot + 1, Len(u))
    IN IF isdigit(digs)
       THEN Returns(Normal(Signed(v, DigitsVal(digs)), IF dots = {} THEN 0 ELSE Len(u) - dot))
       ELSE Raises("ValueError")

\* mutant of dict_set: the new pair goes in front
dict_setFront(d, k, x) == <<<<k, x>>>> \o d

\* d[k] = x on a dict
dict_set(d, k, x) ==
    IF \E i \in 1..Len(d) : d[i][1] = k
    THEN [i \in 1..Len(d) |-> IF d[i][1] = k THEN <<k, x>> ELSE d[i]]
    ELSE Append(d, <<k, x>>)

\* {resp[i]: resp[i + 1] for i in range(0, N, 2)}, resp of even length
RECURSIVE str_pairs(_)
str_pairs(resp) ==
    IF resp = <<>> THEN <<>>
    ELSE LET n == Len(resp)
         IN dict_set(str_pairs(SubSeq(resp, 1, n - 2)), resp[n - 1], PyBytes(resp[n]))

\* the loop "result[resp[i]] = int(v) if v.isdigit() else -1"
RECURSIVE int_pairs(_)
int_pairs(resp) ==
    IF resp = <<>> THEN <<>>
    ELSE LET n == Len(resp)
             v == resp[n]
         IN dict_set(int_pairs(SubSeq(resp, 1, n - 2)), resp[n - 1],
                     PyInt(IF isdigit(v) THEN DigitsVal(v) ELSE 0 - 1))

to_str_map(resp) ==
    IF Len(resp) % 2 # 0 THEN Raises("InvalidResponse")
    ELSE Returns(PyDict(str_pairs(resp)))

to_int_map(resp) ==
    IF Len(resp) % 2 # 0 THEN Raises("InvalidResponse")
    ELSE Returns(PyDict(int_pairs(resp)))

to_str_map_for_scan(resp) ==
    IF Len(resp) % 2 # 0 THEN Raises("InvalidResponse")
    ELSE IF Len(resp) = 0 THEN Returns(PyTuple(PyNone, PyDict(<<>>)))
    ELSE Returns(PyTuple(PyBytes(resp[Len(resp) - 1]), PyDict(str_pairs(resp))))

to_int_map_for_scan(resp) ==
    IF Len(resp) % 2 # 0 THEN Raises("InvalidResponse")
    ELSE IF Len(resp) = 0 THEN Returns(PyTuple(PyNone, PyDict(<<>>)))
    ELSE Returns(PyTuple(PyBytes(resp[Len(resp) - 1]), PyDict(int_pairs(resp))))

\* bytes.decode("utf-8") over the bytes of the model: the two characters
\* outside ASCII from their two and three bytes, an ASCII byte as itself;
\* any other use of a byte above 0x7F raises UnicodeDecodeError
HighBytes == {"0xC3", "0xA9", "0xED", "0x95", "0x9C", "0xFF"}

RECURSIVE decode(_)
decode(b) ==
    IF b = <<>> THEN [ok |-> TRUE, s |-> <<>>]
    ELSE LET n == IF Len(b) >= 2 /\ SubSeq(b, 1, 2) = utf8_char(EAcute) THEN 2
                  ELSE IF Len(b) >= 3 /\ SubSeq(b, 1, 3) = utf8_char(Hangul) THEN 3
                  ELSE IF b[1] \in HighBytes THEN 0
                  ELSE 1
             ch == IF n = 2 THEN EAcute ELSE IF n = 3 THEN Hangul ELSE b[1]
             rest == decode(SubSeq(b, n + 1, Len(b)))
         IN IF n = 0 \/ ~rest.ok THEN [ok |-> FALSE, s |-> <<>>]
            ELSE [ok |-> TRUE, s |-> <<ch>> \o rest.s]

PyStr(s) == [type |-> "str", v |-> s]

\* raise RuntimeError(status.decode("utf-8"))
RemoteError(status) ==
    IF decode(status).ok
    THEN [raised |-> "RemoteError", value |-> PyStr(decode(status).s)]
    ELSE Raises("UnicodeDecodeError")

Ok == <<"o", "k">>
NotFound == <<"n", "o", "t", "_", "f", "o", "u", "n", "d">>

\* wrap_response(cmd, resp): what it returns or raises.  resp[0] of an empty
\* body is read without a bounds check (boundscheck=False), "Undefined".
wrap_response_cmd(cmd, resp) ==
    IF Len(resp) = 0 THEN Raises("ConnectionClosed")
    ELSE LET status == resp[1]
             body == Tail(resp)
         IN IF status = NotFound THEN Returns(PyNone)
            ELSE IF status # Ok THEN RemoteError(status)
            ELSE IF cmd \in REQUEST_FOR_NO_RESPONSE THEN Returns(PyNone)
            ELSE IF cmd \in REQUEST_FOR_INT_RESPONSE
                 THEN IF body = <<>> THEN Raises("Undefined") ELSE int(body[1])
            ELSE IF cmd \in REQUEST_FOR_FLOAT_RESPONSE
                 THEN IF body = <<>> THEN Raises("Undefined") ELSE float(body[1])
            ELSE IF cmd \in REQUEST_FOR_BYTE_RESPONSE
                 THEN IF body = <<>> THEN Raises("Undefined") ELSE Returns(PyBytes(body[1]))
            ELSE IF cmd \in REQUEST_FOR_LIST_RESPONSE THEN Returns(PyList(body))
            ELSE IF cmd \in REQUEST_FOR_STR_MAP_RESPONSE THEN to_str_map(body)
            ELSE IF cmd \in REQUEST_FOR_INT_MAP_RESPONSE THEN to_int_map(body)
            ELSE IF cmd \in REQUEST_FOR_STR_MAP_SCAN_RESPONSE THEN to_str_map_for_scan(body)
            ELSE IF cmd \in REQUEST_FOR_INT_MAP_SCAN_RESPONSE THEN to_int_map_for_scan(body)
            ELSE Raises("UnknownCommand")

\* The server's side of a response: repr of a float, and the body that
\* carries a value (a scan's next_start is not sent, it is the last key).
RECURSIVE ZeroPad(_, _)
ZeroPad(s, n) == IF Len(s) >= n THEN s ELSE ZeroPad(<<"0">> \o s, n)

repr_float(m, k) ==
    LET digs == ZeroPad(itoa(IF m < 0 THEN 0 - m ELSE m), k + 1)
        whole == SubSeq(digs, 1, Len(digs) - k)
        frac == IF k = 0 THEN <<"0">> ELSE SubSeq(digs, Len(digs) - k + 1, Len(digs))
    IN (IF m < 0 THEN <<"-">> ELSE <<>>) \o whole \o <<".">> \o frac

RECURSIVE BodyOf(_)
BodyOf(x) ==
    CASE x.type = "None" -> <<>>
      [] x.type = "int" -> <<str(x.v)>>
      [] x.type = "float" -> <<repr_float(x.v[1], x.v[2])>>
      [] x.type = "bytes" -> <<x.v>>
      [] x.type = "list" -> x.v
      [] x.type = "dict" ->
            IF x.v = <<>> THEN <<>>
            ELSE <<x.v[1][1]>> \o BodyOf(x.v[1][2]) \o BodyOf(PyDict(Tail(x.v)))
      [] x.type = "tuple" -> BodyOf(x.v[2])

ResponseInts == {0, 12, 0 - 5}
ResponseFloats == {PyFloat(15, 1), PyFloat(0 - 225, 2), PyFloat(3, 0), PyFloat(5, 2)}
ResponseBlobs == {<<>>, <<"a">>, <<CR, LF>>}
ResponseKeys == {<<>>, <<"a">>, <<"b">>}

DictsOf(Vals) ==
    {d \in SeqsUpTo(ResponseKeys \X Vals, MaxPairs) :
        \A i, j \in 1..Len(d) : d[i][1] = d[j][1] => i = j}
ScanOf(d) == PyTuple(IF d = <<>> THEN PyNone ELSE PyBytes(d[Len(d)][1]), PyDict(d))

StrVals == {PyBytes(b) : b \in ResponseBlobs}
IntVals == {PyInt(n) : n \in ResponseInts}

\* the classes of commands, each with the values of its shape
ResponseClasses ==
    {[cmds |-> REQUEST_FOR_NO_RESPONSE, values |-> {PyNone}],
     [cmds |-> REQUEST_FOR_INT_RESPONSE, values |-> IntVals],
     [cmds |-> REQUEST_FOR_FLOAT_RESPONSE, values |-> ResponseFloats],
     [cmds |-> REQUEST_FOR_BYTE_RESPONSE, values |-> StrVals],
     [cmds |-> REQUEST_FOR_LIST_RESPONSE,
      values |-> {PyList(l) : l \in SeqsUpTo(ResponseBlobs, MaxPairs)}],
     [cmds |-> REQUEST_FOR_STR_MAP_RESPONSE, values |-> {PyDict(d) : d \in DictsOf(StrVals)}],
     [cmds |-> REQUEST_FOR_INT_MAP_RESPONSE, values |-> {PyDict(d) : d \in DictsOf(IntVals)}],
     [cmds |-> REQUEST_FOR_STR_MAP_SCAN_RESPONSE,
      values |-> {ScanOf(d) : d \in DictsOf(StrVals)}],
     [cmds |-> REQUEST_FOR_INT_MAP_SCAN_RESPONSE,
      values |-> {ScanOf(d) : d \in DictsOf(IntVals)}]}

ResponseCases ==
    UNION {{[cmds |-> k.cmds, value |-> x,
             bytes |-> WireFrame(<<Ok>> \o BodyOf(x), <<LF>>, <<LF>>, <<LF>>)] :
                x \in k.values} : k \in ResponseClasses}

\* an ok response on a socket, read by the parser
InitResponse == \E e \in ResponseCases : InitReading(e.bytes)

SpecResponse == InitResponse /\ [][NextParser]_vars

\* Frames of every kind of status, each with the text that its status
\* reads as (for a status that is no UTF-8: none), under commands of every
\* class and of none.
InterpretStatuses ==
    {[status |-> Ok, text |-> <<"o", "k">>],
     [status |-> NotFound, text |-> <<"n", "o", "t", "_", "f", "o", "u", "n", "d">>],
     [status |-> <<"f", "a", "i", "l">>, text |-> <<"f", "a", "i", "l">>],
     [status |-> <<"O", "K">>, text |-> <<"O", "K">>],
     [status |-> <<>>, text |-> <<>>],
     [status |-> <<"0xC3", "0xA9", "!">>, text |-> <<EAcute, "!">>],
     [status |-> <<"e", "0xFF">>, text |-> <<>>]}
InterpretBodies ==
    {b \in SeqsUpTo({<<"a">>, <<"1">>}, MaxBody) : \A i \in 1..Len(b) : b[i] = <<"a">> <=> i % 2 = 1}
        \cup {<<<<"a">>, <<"1">>, <<"b">>, <<"2">>>>}
InterpretFrames ==
    {[tokens |-> <<>>, text |-> <<>>, bytes |-> <<LF>>]}
        \cup {[tokens |-> <<st.status>> \o b, text |-> st.text,
               bytes |-> WireFrame(<<st.status>> \o b, <<LF>>, <<LF>>, <<LF>>)] :
                  st \in InterpretStatuses, b \in InterpretBodies}

ClassedCommands ==
    REQUEST_FOR_NO_RESPONSE \cup REQUEST_FOR_INT_RESPONSE \cup REQUEST_FOR_FLOAT_RESPONSE
        \cup REQUEST_FOR_BYTE_RESPONSE \cup REQUEST_FOR_LIST_RESPONSE
        \cup REQUEST_FOR_STR_MAP_RESPONSE \cup REQUEST_FOR_INT_MAP_RESPONSE
        \cup REQUEST_FOR_STR_MAP_SCAN_RESPONSE \cup REQUEST_FOR_INT_MAP_SCAN_RESPONSE
InterpretCommands == ClassedCommands \cup {"delete", "flushdb", ""}

\* a response of any status on a socket, read by the parser
InitInterpret == \E f \in InterpretFrames : InitReading(f.bytes)

SpecInterpret == InitInterpret /\ [][NextParser]_vars

\* ------------------------------------------------------------------- buffer
\* The Buffer of a parser with its fields and its limits in bytes.  Its
\* bytes are kept as the chunks that were appended, each by its length, the
\* first one less what was removed from it.  In the specification of the
\* buffer alone buf[1] is this record.  realloc is taken to succeed.
INITIAL_BUF_SIZE == 8192
BUF_MAX_SIZE == 16777216

NewBuffer == [data |-> <<>>, size |-> 0, cap |-> INITIAL_BUF_SIZE]

\* grow, "while cap < size: cap *= 2"
RECURSIVE Doubled(_, _)
Doubled(cap, size) == IF cap < size THEN Doubled(cap * 2, size) ELSE cap

\* mutant of grow: the limit is never looked at
growUnbounded(b, size) ==
    [res |-> "OK", buf |-> IF size <= b.cap THEN b ELSE [b EXCEPT !.cap = Doubled(@, size)]]

\* Buffer.grow(size): the status and the buffer afterwards
grow(b, size) ==
    IF size > BUF_MAX_SIZE THEN [res |-> "ENOMEM", buf |-> b]
    ELSE IF size <= b.cap THEN [res |-> "OK", buf |-> b]
    ELSE [res |-> "OK", buf |-> [b EXCEPT !.cap = Doubled(@, size)]]

\* Buffer.put of a chunk of size bytes
put(b, size) ==
    LET g == grow(b, b.size + size)
    IN IF g.res = "OK"
       THEN [res |-> "OK", buf |-> [g.buf EXCEPT !.data = Append(@, size), !.size = @ + size]]
       ELSE g

\* memmove(self.data, self.data + size, self.size): the chunks less their
\* first size bytes
RECURSIVE Shifted(_, _)
Shifted(data, size) ==
    IF size = 0 \/ data = <<>> THEN data
    ELSE IF size >= Head(data) THEN Shifted(Tail(data), size - Head(data))
    ELSE <<Head(data) - size>> \o Tail(data)

\* Buffer.remove(size)
Buffer_remove(b, size) ==
    IF size > b.size THEN [b EXCEPT !.size = 0, !.data = <<>>]
    ELSE [b EXCEPT !.size = @ - size, !.data = Shifted(@, size)]

\* the sizes of the chunks fed, and the sizes removed from a buffer
FeedSizes ==
    {1, INITIAL_BUF_SIZE, INITIAL_BUF_SIZE + 1, 65536, BUF_MAX_SIZE \div 2,
     BUF_MAX_SIZE - 1, BUF_MAX_SIZE, BUF_MAX_SIZE + 1}
RemoveSizes(b) ==
    {b.size, b.size + 1}
        \cup (IF b.data = <<>> THEN {}
              ELSE {b.data[1]} \cup (IF b.data[1] % INITIAL_BUF_SIZE = 0
                                     THEN {b.data[1] \div 2} ELSE {}))

InitBuffer ==
    /\ os_pid = 1
    /\ pid = 1
    /\ max_connections = INT32_MAX
    /\ created_connections = 1
    /\ available_connections = <<>>
    /\ in_use_connections = {1}
    /\ password_arg = None
    /\ password = FALSE
    /\ single = FALSE
    /\ constructed = TRUE
    /\ connection = 0
    /\ initializing = {}
    /\ nconn = 1
    /\ cpid = [c \in Conns |-> IF c = 1 THEN 1 ELSE 0]
    /\ sock = [c \in Conns |-> IF c = 1 THEN NewSock ELSE NoSock]
    /\ next_response = [c \in Conns |-> None]
    /\ buf = [c \in Conns |-> NewBuffer]
    /\ pc = [t \in Threads |-> IF t = 1 THEN "read" ELSE "idle"]
    /\ conn = [t \in Threads |-> IF t = 1 THEN 1 ELSE 0]
    /\ attempt = [t \in Threads |-> 1]
    /\ leased = [t \in Threads |-> t = 1]
    /\ event = NoEvent

\* Reader.feed(value): Parser.feed, Buffer.put; NoMemoryError unless OK
BufferFeed(c) ==
    /\ Len(buf[c].data) < MaxChunks
    /\ \E size \in FeedSizes : \E r \in {put(buf[c], size)} :
          /\ buf' = [buf EXCEPT ![c] = r.buf]
          /\ event' = [NoEvent EXCEPT !.at = "feed", !.c = c,
                          !.raised = IF r.res = "OK" THEN "none" ELSE "NoMemoryError"]
    /\ UNCHANGED <<poolVars, clientVars, nconn, cpid, sock, next_response, threadVars>>

\* Buffer.remove(size), as Parser.parse calls it
BufferRemove(c) ==
    /\ \E size \in RemoveSizes(buf[c]) :
          buf' = [buf EXCEPT ![c] = Buffer_remove(buf[c], size)]
    /\ event' = [NoEvent EXCEPT !.at = "remove", !.c = c]
    /\ UNCHANGED <<poolVars, clientVars, nconn, cpid, sock, next_response, threadVars>>

NextBuffer ==
    \/ BufferFeed(1)
    \/ BufferRemove(1)

SpecBuffer == InitBuffer /\ [][NextBuffer]_vars

\* ------------------------------------------------------ buffer, step by step
\* Buffer.clear: the storage is freed, size and cap become 0
Buffer_clear(b) == [b EXCEPT !.data = <<>>, !.size = 0, !.cap = 0]

\* Reader.clear, between two calls of feed
ReaderClear(t) ==
    /\ conn[t] # 0
    /\ pc[t] = "read"
    /\ buf' = [buf EXCEPT ![conn[t]] = Buffer_clear(@)]
    /\ event' = [NoEvent EXCEPT !.at = "clear", !.c = conn[t]]
    /\ UNCHANGED <<poolVars, clientVars, nconn, cpid, sock, next_response, threadVars>>

\* Reader.feed(value) up to the loop of grow: put calls grow(self.size +
\* size), which returns ENOMEM or OK at once or enters the loop with its
\* local cap = self.cap.  While the loop runs next_response[conn[t]] holds the
\* locals of the call: cap, the size asked for and the length of value.
PutBegin(t) ==
    /\ conn[t] # 0
    /\ pc[t] = "read"
    /\ Len(buf[conn[t]].data) < MaxChunks
    /\ \E n \in FeedSizes : \E size \in {buf[conn[t]].size + n} :
          IF size > BUF_MAX_SIZE \/ size <= buf[conn[t]].cap
          THEN /\ buf' = [buf EXCEPT ![conn[t]] = put(@, n).buf]
               /\ event' = [NoEvent EXCEPT !.at = "feed", !.c = conn[t],
                               !.raised = IF size > BUF_MAX_SIZE THEN "NoMemoryError"
                                          ELSE "none"]
               /\ UNCHANGED <<next_response, pc>>
          ELSE /\ next_response' = [next_response EXCEPT ![conn[t]] =
                      Some([cap |-> buf[conn[t]].cap, size |-> size, n |-> n])]
               /\ pc' = [pc EXCEPT ![t] = "grow"]
               /\ event' = NoEvent
               /\ UNCHANGED buf
    /\ UNCHANGED <<poolVars, clientVars, nconn, cpid, sock, conn, attempt, leased>>

\* grow, one turn of "while cap < size: cap *= 2"
GrowLoop(t) ==
    /\ conn[t] # 0
    /\ pc[t] = "grow"
    /\ \E f \in {next_response[conn[t]][1]} :
          /\ f.cap < f.size
          /\ next_response' = [next_response EXCEPT ![conn[t]] = Some([f EXCEPT !.cap = @ * 2])]
    /\ event' = NoEvent
    /\ UNCHANGED <<poolVars, clientVars, nconn, cpid, sock, buf, threadVars>>

\* grow after the loop (realloc, self.cap = cap, OK), then put's memcpy and
\* "self.size += size", and feed returns
GrowDone(t) ==
    /\ conn[t] # 0
    /\ pc[t] = "grow"
    /\ \E f \in {next_response[conn[t]][1]} :
          /\ f.cap >= f.size
          /\ buf' = [buf EXCEPT ![conn[t]] = [@ EXCEPT !.cap = f.cap, !.data = Append(@, f.n),
                                                !.size = @ + f.n]]
    /\ next_response' = [next_response EXCEPT ![conn[t]] = None]
    /\ pc' = [pc EXCEPT ![t] = "read"]
    /\ event' = [NoEvent EXCEPT !.at = "feed", !.c = conn[t]]
    /\ UNCHANGED <<poolVars, clientVars, nconn, cpid, sock, conn, attempt, leased>>

NextClear ==
    \/ ReaderClear(1)
    \/ PutBegin(1)
    \/ GrowLoop(1)
    \/ GrowDone(1)
    \/ BufferRemove(1)

\* a call of feed that has begun goes on running
SpecClear == InitBuffer /\ [][NextClear]_vars /\ WF_vars(GrowLoop(1) \/ GrowDone(1))

\* --------------------------------------------------------------------- fork
\* os.fork() called by thread t between two calls on the client, seen from
\* the child: os.getpid() changes, only the forking thread exists, and the
\* client, the pool and the connections (sockets included) are copies of
\* the parent's.
ChildPid == 2

Fork(t) ==
    /\ os_pid = pid
    /\ constructed /\ pc[t] = "idle"
    /\ os_pid' = ChildPid
    /\ pc' = [u \in Threads |-> IF u = t THEN "idle" ELSE "dead"]
    /\ conn' = [u \in Threads |-> 0]
    /\ attempt' = [u \in Threads |-> 1]
    /\ leased' = [u \in Threads |-> FALSE]
    /\ event' = NoEvent
    /\ UNCHANGED <<pid, max_connections, created_connections, available_connections,
                   in_use_connections, clientVars, connVars>>

NextFork ==
    \/ \E t \in Threads : LeaseLock(t)
    \/ \E t \in Threads : Connect(t)
    \/ \E t \in Threads : Probe(t)
    \/ \E t \in Threads : ExecPinned(t)
    \/ \E t \in Threads : Send(t)
    \/ \E t \in Threads : Read(t)
    \/ \E t \in Threads : Close(t)
    \/ \E t \in Threads : Fork(t)

SpecFork == Init /\ [][NextFork]_vars

\* Connection.disconnect called on connection c by thread t between two
\* calls on the client, in the parent or in the child
Disconnect(t, c) ==
    /\ constructed /\ pc[t] = "idle"
    /\ c \in 1..nconn
    /\ sock' = disconnect({c}, sock)
    /\ event' = [thread |-> t, raised |-> "none", at |-> "disconnect", c |-> c,
                 tags |-> {}]
    /\ UNCHANGED <<poolVars, clientVars, nconn, cpid, next_response, buf,
                   threadVars>>

NextDisconnect ==
    \/ \E t \in Threads : LeaseLock(t)
    \/ \E t \in Threads : Connect(t)
    \/ \E t \in Threads : Probe(t)
    \/ \E t \in Threads : ExecPinned(t)
    \/ \E t \in Threads : Send(t)
    \/ \E t \in Threads : Read(t)
    \/ \E t \in Threads : Close(t)
    \/ \E t \in Threads : Fork(t)
    \/ \E t \in Threads : \E c \in Conns : Disconnect(t, c)

SpecDisconnect == Init /\ [][NextDisconnect]_vars

\* ------------------------------------------------------------------ claims
HasDuplicates(s) == \E i, j \in 1..Len(s) : i # j /\ s[i] = s[j]

\* C1: the frame a command interprets consists of bytes the server sent in
\* answer to that very command (stated for the pooled client, where one
\* thread at a time has the connection).
C1_FifoMatching ==
    ~single => event.tags \subseteq {event.thread}

\* C2: created_connections = |available| + |in_use| and created_connections
\* never exceeds max_connections.
C2_PoolAccounting ==
    /\ created_connections = Len(available_connections) + Cardinality(in_use_connections)
    /\ created_connections <= max_connections

\* C3: between a lease and its release no other lease returns the same
\* Connection: two lease holders (threads, or the client's pin) never hold
\* the same one.
C3_LeaseExclusive ==
    /\ \A t1, t2 \in Threads :
         t1 # t2 /\ leased[t1] /\ leased[t2] => conn[t1] # conn[t2]
    /\ \A t \in Threads : leased[t] /\ connection # 0 => conn[t] # connection

\* C4: available and in_use are disjoint and available holds each
\* Connection at most once.
C4_Disjoint ==
    /\ Range(available_connections) \cap in_use_connections = {}
    /\ ~HasDuplicates(available_connections)

\* C5: in pooled mode a command that obtained a lease has given it back
\* when execute_command returns or raises: its connection is not in in_use.
C5_LeaseReturned ==
    ~single /\ event.at \in {"send", "read"} => event.c \notin in_use_connections

\* C6: a command whose send or read fails with an I/O error leaves its
\* connection disconnected and out of available.
C6_FailedConnectionDropped ==
    event.at \in {"send", "read"} /\ event.raised \in {"IoError", "ServerClosed"}
        => /\ ~is_connected(event.c)
           /\ event.c \notin Range(available_connections)

\* C7: when the blocking read of a leased connection returns 0 bytes the
\* command fails with ConnectionClosed, the connection is dropped from the
\* pool and created_connections decreases.
C7_ServerCloseDrops ==
    [][event'.at = "read" /\ event'.raised = "ServerClosed" /\ ~single
         => /\ event'.c \notin Range(available_connections') \cup in_use_connections'
            /\ created_connections' < created_connections]_vars

\* C8 as stated: with max_connections = 1 a lease requested while another
\* thread holds the connection does not fail (it waits for the release).
C8_SecondLeaseDoesNotFail ==
    [][\A t \in Threads :
          LeaseLock(t) /\ max_connections = 1 /\ (\E u \in Threads : u # t /\ leased[u])
              => event'.raised # "PoolExhausted"]_vars

\* C8 amended: with max_connections = 1, in the process that owns the pool,
\* a lease requested while the connection is leased and available is empty
\* does not wait: it fails at once with PoolExhausted and leaves the pool as
\* it was; a lease requested when available is not empty obtains the
\* connection on top of it.
C8_SecondLeaseFailsAtOnce ==
    [][\A t \in Threads :
          LET P == checkpid(PoolNow(sock))
          IN /\ LeaseLock(t) /\ max_connections = 1
                   /\ P.in_use # {} /\ P.available = <<>>
                  => /\ event' = Ended(t, "PoolExhausted", {})
                     /\ pc'[t] = pc[t] /\ leased'[t] = FALSE
                     /\ UNCHANGED <<created_connections, available_connections,
                                    in_use_connections>>
             /\ LeaseLock(t) /\ max_connections = 1 /\ P.available # <<>>
                  => /\ leased'[t]
                     /\ conn'[t] = P.available[Len(P.available)]]_vars

C8_Witness ==
    /\ max_connections = 1
    /\ event.raised = "PoolExhausted"
    /\ \E u \in Threads : u # event.thread /\ leased[u] /\ conn[u] \in in_use_connections

\* C9: a lease fails with PoolExhausted exactly when it has to make a
\* connection (available is empty) and created_connections >= max_connections
\* (both taken after the PID check), where a max_connections argument of 0
\* stands for 2^31-1; the failed lease leaves available, in_use and
\* created_connections as the PID check left them.
C9_PoolExhausted ==
    /\ [](max_connections \in (1..MaxPoolArg) \cup {INT32_MAX})
    /\ [][\A t \in Threads :
            LET P == checkpid(PoolNow(sock))
            IN LeaseLock(t) =>
                 /\ event'.raised = "PoolExhausted"
                      <=> P.available = <<>> /\ P.created >= max_connections
                 /\ event'.raised = "PoolExhausted"
                      => /\ created_connections' = P.created
                         /\ available_connections' = P.available
                         /\ in_use_connections' = P.in_use]_vars

C9_Witness ==
    /\ event.raised = "PoolExhausted"
    /\ available_connections = <<>>
    /\ created_connections >= max_connections

\* C11: in a forked child (os.getpid() differs from the pool's pid) every
\* pool operation - a lease, a release, close()'s release and disconnect -
\* starts from the emptied pool: after it the pool holds nothing but what
\* this one operation put there, counted from created_connections = 0.
PoolOp ==
    \/ \E t \in Threads : LeaseLock(t) \/ Close(t)
    \/ <<created_connections, available_connections, in_use_connections>>'
          # <<created_connections, available_connections, in_use_connections>>

C11_ForkReset ==
    [][pid # os_pid /\ PoolOp
         => /\ \A t \in Threads : LeaseLock(t) =>
                  /\ available_connections' = <<>>
                  /\ in_use_connections' = {conn'[t]}
                  /\ created_connections' = 1
            /\ (\E t \in Threads : Close(t)) =>
                  /\ available_connections' = <<>>
                  /\ in_use_connections' = {}
                  /\ created_connections' = 0
            /\ ~(\E t \in Threads : LeaseLock(t) \/ Close(t)) =>
                  /\ Len(available_connections') <= 1
                  /\ in_use_connections' = {}
                  /\ created_connections' \in {-1, 0}]_vars

C11_Witness ==
    /\ pid # os_pid
    /\ \E c \in Conns : cpid[c] = pid /\ is_connected(c)
    /\ \E t \in Threads : leased[t] /\ in_use_connections = {conn[t]}
    /\ created_connections = 1

\* C12: in a forked child a lease never hands out a Connection of the
\* parent: the Connection is constructed by this lease, in the child, and
\* has no socket until the lease's connect() opens one.
C12_ChildLeaseFresh ==
    /\ [](pid # os_pid => \A t \in Threads : leased[t] => cpid[conn[t]] = os_pid)
    /\ [][\A t \in Threads :
            pid # os_pid /\ LeaseLock(t) /\ leased'[t]
               => /\ conn'[t] = nconn + 1
                  /\ cpid'[conn'[t]] = os_pid
                  /\ ~sock'[conn'[t]].open]_vars

C12_Witness ==
    /\ pid # os_pid
    /\ available_connections = <<>>
    /\ \E c \in Conns : cpid[c] = pid /\ is_connected(c)
    /\ \E t \in Threads : leased[t] /\ pc[t] = "send" /\ is_connected(conn[t])

\* C13: a task cancelled while it holds a connection leaves that connection
\* disconnected and out of available.
C13_CancelledConnectionDropped ==
    event.raised = "Cancelled"
        => /\ ~is_connected(event.c)
           /\ event.c \notin Range(available_connections)

\* C14: in pooled mode, when execute_command raises RemoteError its
\* connection is still connected, holds no byte of that reply (no pending
\* frame, nothing buffered, nothing unread on the socket) and is on top of
\* available; a lease that follows obtains this connection, still connected.
C14_RemoteErrorKeepsConnection ==
    /\ [](~single /\ event.raised = "RemoteError"
            => /\ is_connected(event.c)
               /\ next_response[event.c] = None
               /\ event.thread \notin TagsOf(buf[event.c]) \cup TagsOf(sock[event.c].wire)
               /\ ~get(buf[event.c]).bad /\ get(buf[event.c]).frame = None
               /\ available_connections # <<>>
               /\ available_connections[Len(available_connections)] = event.c)
    /\ [][\A t \in Threads :
            ~single /\ event.raised = "RemoteError" /\ LeaseLock(t)
               => /\ leased'[t] /\ conn'[t] = event.c
                  /\ sock'[event.c].open
                  /\ nconn' = nconn]_vars

C14_Witness ==
    /\ ~single /\ event.raised = "RemoteError" /\ event.at = "read"
    /\ event.tags = {event.thread}

\* C17: while only a proper prefix of a valid frame B has been fed, in
\* chunks of any sizes, every parse attempt says Incomplete; once all of B
\* has been fed the parse returns the blobs of B, the same frame as when B
\* is fed at once, and leaves the buffer empty.
C17_ChunkInvariance ==
    \A f \in ParserFrames :
        next_response[1] = None /\ BytesOf(buf[1] \o sock[1].wire) = f.bytes
            => IF sock[1].wire # <<>>
               THEN get(buf[1]).frame = None /\ ~get(buf[1]).bad
               ELSE /\ get(buf[1]).frame # None
                    /\ get(buf[1]).frame[1].values = f.blobs
                    /\ get(buf[1]).frame = get(Tagged(f.bytes, 0)).frame
                    /\ get(buf[1]).buf = <<>>

C17_Witness ==
    /\ event.at = "get" /\ event.raised = "none"
    /\ buf[1] = <<>> /\ sock[1].wire = <<>>
    /\ next_response[1] # None
    /\ Len(next_response[1][1].values) = MaxBlobs
    /\ \E i \in 1..MaxBlobs : next_response[1][1].values[i] = TenBytes

\* C18: when the buffer begins with a complete frame, whatever follows,
\* the parse returns exactly that frame's blobs and the buffer afterwards is
\* exactly the bytes that followed the frame; when the parse says Incomplete
\* the buffer is what it was.
C18_ConsumesExactly ==
    /\ \A f \in ParserFrames :
          Len(f.bytes) <= Len(buf[1]) /\ BytesOf(SubSeq(buf[1], 1, Len(f.bytes))) = f.bytes
             => /\ get(buf[1]).frame # None
                /\ get(buf[1]).frame[1].values = f.blobs
                /\ get(buf[1]).buf = SubSeq(buf[1], Len(f.bytes) + 1, Len(buf[1]))
    /\ get(buf[1]).frame = None /\ ~get(buf[1]).bad => get(buf[1]).buf = buf[1]

C18_Witness ==
    /\ event.at = "get" /\ event.raised = "none"
    /\ next_response[1] # None /\ next_response[1][1].values # <<>>
    /\ BytesOf(buf[1]) = <<"1", LF, "x">>

\* C19: encode_command(name, args) emits for each token (the name first,
\* "delete" as "del", then the arguments in order; text as UTF-8, integers
\* as decimal ASCII, bytes unchanged) the token's length in decimal, \n, the
\* token, \n, and one more \n after all tokens; the parser, fed this
\* output, returns exactly those tokens as blobs and nothing before the
\* last byte has arrived.
C19_EncodeCommand ==
    \A fed \in {BytesOf(buf[1] \o sock[1].wire)} : \A g \in {get(buf[1])} :
        \A e \in EncodeInputs :
            next_response[1] = None /\ fed = e.bytes
                => /\ e.bytes = WireFrame(e.tokens, <<LF>>, <<LF>>, <<LF>>)
                   /\ e.command = Delete
                         => SubSeq(e.bytes, 1, 6) = <<"3", LF, "d", "e", "l", LF>>
                   /\ IF sock[1].wire # <<>>
                      THEN g.frame = None /\ ~g.bad
                      ELSE /\ g.frame # None
                           /\ g.frame[1].values = e.tokens
                           /\ g.buf = <<>>

C19_Witness ==
    /\ event.at = "get" /\ event.raised = "none"
    /\ buf[1] = <<>> /\ sock[1].wire = <<>>
    /\ next_response[1] # None
    /\ next_response[1][1].values =
          <<Del, <<"0xC3", "0xA9", "0xED", "0x95", "0x9C", LF>>, <<"-", "1", "2", "0">>>>
    /\ \E e \in EncodeInputs :
          e.command = Delete /\ e.tokens = next_response[1][1].values

\* C20: for every response class and every value of its shape, the value
\* written as an ok response frame, parsed and interpreted under any command
\* of the class is the value again.
C20_ResponseRoundTrip ==
    \A fed \in {BytesOf(buf[1] \o sock[1].wire)} : \A g \in {get(buf[1])} :
        \A e \in ResponseCases :
            next_response[1] = None /\ sock[1].wire = <<>> /\ fed = e.bytes
                => /\ g.frame # None
                   /\ \A cmd \in e.cmds :
                         wrap_response_cmd(cmd, g.frame[1].values) = Returns(e.value)

\* C21: interpreting a frame under a command: an empty frame fails with
\* ConnectionClosed; status not_found gives the absent value whatever the
\* command; every status other than ok and not_found fails with RemoteError
\* carrying the status as text, whatever the command; with status ok a
\* command of no class fails with UnknownCommand and a command of a class
\* does not.
C21_Interpret ==
    \A fed \in {BytesOf(buf[1] \o sock[1].wire)} : \A g \in {get(buf[1])} :
        \A f \in InterpretFrames :
            next_response[1] = None /\ sock[1].wire = <<>> /\ fed = f.bytes
                => /\ g.frame # None
                   /\ g.frame[1].values = f.tokens
                   /\ \A cmd \in InterpretCommands :
                         \A r \in {wrap_response_cmd(cmd, g.frame[1].values)} :
                            IF f.tokens = <<>> THEN r = Raises("ConnectionClosed")
                            ELSE IF f.tokens[1] = NotFound THEN r = Returns(PyNone)
                            ELSE IF f.tokens[1] # Ok
                            THEN r = [raised |-> "RemoteError", value |-> PyStr(f.text)]
                            ELSE r.raised = "UnknownCommand" <=> cmd \notin ClassedCommands

\* C22 as stated: for hgetall and an ok reply with body a, 1, b, 2 the
\* result is the ordered mapping a -> 1, b -> 2 with integer values.
C22_HgetallIntegers ==
    next_response[1] # None /\ next_response[1][1].values = <<Ok, <<"a">>, <<"1">>, <<"b">>, <<"2">>>>
        => wrap_response_cmd("hgetall", next_response[1][1].values)
              = Returns(PyDict(<<<<(<<"a">>), PyInt(1)>>, <<(<<"b">>), PyInt(2)>>>>))

\* C22, amended: for hgetall and an ok reply with body a, 1, b, 2 the
\* result is the ordered mapping a -> b"1", b -> b"2": hgetall is a STR_MAP
\* command, keys and values are the bytes of the reply.
C22_HgetallBytes ==
    next_response[1] # None /\ next_response[1][1].values = <<Ok, <<"a">>, <<"1">>, <<"b">>, <<"2">>>>
        => wrap_response_cmd("hgetall", next_response[1][1].values)
              = Returns(PyDict(<<<<(<<"a">>), PyBytes(<<"1">>)>>, <<(<<"b">>), PyBytes(<<"2">>)>>>>))

C22_Witness ==
    /\ event.at = "get" /\ event.raised = "none"
    /\ next_response[1] # None
    /\ next_response[1][1].values = <<Ok, <<"a">>, <<"1">>, <<"b">>, <<"2">>>>
    /\ "hgetall" \in REQUEST_FOR_STR_MAP_RESPONSE

C24_OneReconnect ==
    /\ [][\A t \in Threads :
             /\ pc[t] \in {"connect", "probe"}
             /\ event'.thread = t
             /\ \/ event'.at = "connect" /\ event'.raised = "IoError"
                \/ event'.at = "probe" /\ event'.raised \in {"ServerClosed", "ConnectionNotReady"}
             => attempt[t] = 2]_vars
    /\ [](\A t \in Threads : attempt[t] \in {1, 2})

\* C25: when the parser reports a bad format, during read_response or
\* during the probe of a lease, the call fails with ProtocolError and the
\* connection is disconnected: it is not connected afterwards, in the pool
\* with the malformed bytes in its buffer.
C25_BadFormatDisconnects ==
    event.raised = "ProtocolError" /\ event.at \in {"probe", "read"}
        => ~is_connected(event.c)

\* C26: a Connection is used by one caller at a time: no two threads are
\* at a connect, probe, send or read on the same Connection, and close()
\* does not touch the socket of a Connection that another thread holds in
\* the middle of a command.
MidCommand(t) == conn[t] # 0 /\ pc[t] \in {"connect", "auth", "probe", "send", "read"}

C26_OneCallerPerConnection ==
    /\ [](\A t, u \in Threads : t # u /\ MidCommand(t) /\ MidCommand(u) => conn[t] # conn[u])
    /\ [][\A t \in Threads : Close(t) =>
             \A u \in Threads : MidCommand(u) => sock'[conn[u]] = sock[conn[u]]]_vars

C28_FailedLeaseReleased ==
    event.raised # "none" /\ event.at \in {"connect", "auth", "probe"}
        => /\ event.c \notin in_use_connections
           /\ owns_connection(event.c) => event.c \in Range(available_connections)

C28_Witness ==
    /\ event.raised = "ConnectionNotReady" /\ event.at = "probe"
    /\ event.c \notin in_use_connections
    /\ event.c \in Range(available_connections)

\* C29: nothing is done to a socket while the pool's lock is held: the
\* lock section of a lease, release (after its checkpid) and the
\* disconnect of the pool, which close() runs after releasing the pinned
\* connection, leave every socket as it is.
C29_NoSocketOpUnderLock ==
    /\ [](\A c \in 1..nconn : \A x \in Conns :
             release(c, PoolNow(sock)).sock[x].open = sock[x].open)
    /\ [][(\E t \in Threads : LeaseLock(t) \/ Close(t))
             => \A x \in Conns : sock'[x].open = sock[x].open]_vars

\* C30: disconnect() is idempotent and always leaves the connection without
\* a socket handle, and a step that drops a connection's socket performs
\* the orderly shutdown exactly when the current PID is the PID that created
\* the connection: a forked child never shuts down a socket of the parent.
C30_Disconnect ==
    /\ [](\A cs \in SUBSET Conns :
            \A d \in {disconnect(cs, sock)} :
               /\ disconnect(cs, d) = d
               /\ \A c \in cs : ~d[c].open
               /\ \A c \in Conns \ cs : d[c] = sock[c])
    /\ [][\A c \in Conns :
            sock[c].open /\ ~sock'[c].open
                => /\ sock'[c].shut <=> os_pid = cpid[c]
                   /\ os_pid = ChildPid /\ cpid[c] = pid => ~sock'[c].shut]_vars

\* In the child, disconnect() has just dropped, without a shutdown, the
\* socket of a connection the parent created and had connected (its parser
\* still holds what was received on it).
C30_Witness ==
    /\ os_pid = ChildPid
    /\ event.at = "disconnect"
    /\ \E c \in 1..nconn :
          /\ event.c = c /\ cpid[c] = pid
          /\ ~sock[c].open /\ ~sock[c].shut
          /\ next_response[c] # None \/ buf[c] # <<>>

\* C31: available is a stack.  With A the list a pool operation finds after
\* checkpid: a step that lengthens it appends at its end, a step that
\* shortens it is a lease that takes its last element, the most recently
\* released connection, and a Connection is created only when A is empty.
C31_AvailableIsLifo ==
    [][\A A \in {checkpid(PoolNow(sock)).available} : \A n \in {Len(A)} :
          /\ Len(available_connections') > n
                => available_connections' = Append(A, available_connections'[n + 1])
          /\ Len(available_connections') = n => available_connections' = A
          /\ Len(available_connections') < n
                => /\ available_connections' = SubSeq(A, 1, n - 1)
                   /\ \E t \in Threads :
                         /\ conn[t] = 0 /\ conn'[t] = A[n] /\ pc'[t] = "connect"
                         /\ A[n] \in in_use_connections'
          /\ nconn' > nconn => n = 0]_vars

\* A lease has taken connection 1 from the top of a stack that held
\* connection 2, released earlier, below it.
C31_Witness ==
    /\ available_connections = <<2>>
    /\ \E t \in Threads :
          /\ pc[t] = "connect" /\ conn[t] = 1 /\ attempt[t] = 1 /\ leased[t]
          /\ sock[1].open /\ sock[2].open
    /\ in_use_connections = {1}

\* C32: after clear() the buffer holds no storage (size = 0, cap = 0), and
\* an append to the cleared buffer that passes the 16 MiB limit ends, with
\* storage reallocated and size = the length of what was appended.
C32_ClearThenAppend ==
    /\ [](event.at = "clear" => buf[1].size = 0 /\ buf[1].cap = 0 /\ buf[1].data = <<>>)
    /\ (pc[1] = "grow" /\ buf[1].cap = 0)
          ~> (/\ pc[1] = "read" /\ event.at = "feed" /\ event.raised = "none"
              /\ buf[1].cap > 0
              /\ Len(buf[1].data) = 1 /\ buf[1].size = buf[1].data[1])

\* C33: a failed lease or command does not wedge the pool: the pool never
\* gets into a state in which no call is running, nothing is available and
\* nothing may be created, where every lease fails whatever the server
\* does from then on.
Wedged ==
    /\ constructed /\ connection = 0
    /\ \A t \in Threads : pc[t] \in {"idle", "dead"}
    /\ \A P \in {checkpid(PoolNow(sock))} :
          P.available = <<>> /\ PoolFull(P.created, max_connections)

C33_PoolNotWedged == ~Wedged

\* C34: a connection that gets a new socket starts with an empty parse
\* buffer and no pending frame: nothing received on an earlier socket is
\* kept for the frames read from the new one.
C34_ReconnectStartsClean ==
    [][\A c \in Conns :
          ~is_connected(c) /\ sock'[c].open
              => buf'[c] = <<>> /\ next_response'[c] = None]_vars

\* C35: with a password configured, get_connection hands a connection out
\* (to a command, or to the constructor that pins it) only if the server
\* accepted an auth command on the connection's current socket.
C35_LeasedIsAuthenticated ==
    [][\A t \in Threads :
          (/\ password /\ pc[t] = "probe"
           /\ pc'[t] = "send" \/ (~constructed /\ constructed'))
              => is_connected(conn[t]) /\ sock[conn[t]].authed]_vars

\* C36: a client constructed with a password hands it to its pool: the
\* connections of the pool have the password set, and each socket one of
\* them opens begins with the auth command.
C36_PasswordReachesPool ==
    /\ [](password_arg # None => password)
    /\ [][\A c \in Conns :
            password_arg # None /\ ~is_connected(c) /\ sock'[c].open
                => \E t \in Threads : conn[t] = c /\ ConnectAuth(t)]_vars

\* C37: in a forked child the pool is reset once, not at every operation.
\* After each step of the child: created_connections = |available| +
\* |in_use| and 0 <= created_connections <= max_connections, a connection
\* that a call of the child holds from a lease is in in_use, and a call
\* that ends having leased a connection leaves it on top of available.
C37_ChildPoolKept ==
    [][os_pid = ChildPid
         => /\ created_connections'
                  = Len(available_connections') + Cardinality(in_use_connections')
            /\ 0 <= created_connections'
            /\ created_connections' <= max_connections
            /\ \A t \in Threads :
                  /\ leased'[t] => conn'[t] \in in_use_connections'
                  /\ leased[t] /\ ~leased'[t]
                        => /\ available_connections' # <<>>
                           /\ available_connections'[Len(available_connections')]
                                 = conn[t]]_vars

\* C38: in a forked child no command is written to and no response is read
\* from a socket that the parent opened, the pinned connection of a
\* single-connection client included.
C38_ChildLeavesParentSockets ==
    [][\A t \in Threads :
          /\ os_pid = ChildPid
          /\ pc[t] \in {"send", "read"}
          /\ pc'[t] # pc[t] \/ sock'[conn[t]] # sock[conn[t]]
          /\ is_connected(conn[t])
          => sock[conn[t]].opener = os_pid]_vars

\* C39: "delete" and "del" put the same bytes on the wire, and on the ok
\* reply that the server then sends execute_command("delete", key) returns
\* what execute_command("del", key) returns: it does not fail with
\* UnknownCommand.
C39_DeleteIsInterpreted ==
    \A g \in {get(buf[1])} :
        (/\ next_response[1] = None /\ sock[1].wire = <<>>
         /\ g.frame # None /\ Len(g.frame[1].values) = 2
         /\ g.frame[1].values[1] = Ok)
            => \A key \in {StrArg(<<"k">>), BytesArg(<<CR, LF>>)} :
                 /\ encode_command(Delete, <<key>>) = encode_command(Del, <<key>>)
                 /\ wrap_response_cmd("delete", g.frame[1].values).raised # "UnknownCommand"
                 /\ wrap_response_cmd("delete", g.frame[1].values)
                       = wrap_response_cmd("del", g.frame[1].values)

\* C15: a single-connection client leases at most one connection: when no
\* lease is under way, in_use holds nothing but the pinned connection.
C15_OnePinnedLease ==
    single /\ (\A t \in Threads : pc[t] \notin {"connect", "probe"})
        => in_use_connections \subseteq {connection}

\* C16: when close() is called on a single-connection client (a connection
\* is pinned) with no command in flight, it leaves in_use empty and no
\* connection of available with a socket.
C16_CloseReleasesAll ==
    [][\A t \in Threads :
          Close(t) /\ connection # 0 /\ (\A u \in Threads : pc[u] = "idle")
             => /\ in_use_connections' = {}
                /\ \A c \in Range(available_connections') : ~is_connected(c)']_vars

\* C10: with a password, connect() returns only after an ok reply to auth;
\* when the read of the reply fails or its status is not ok, connect()
\* fails with AuthError and the connection is left without a socket.
C10_AuthEnforced ==
    [][\A t \in Threads :
          pc[t] = "auth" /\ pc'[t] # "auth"
              => \/ pc'[t] = "probe" /\ sock[conn[t]].authed
                 \/ /\ event'.thread = t /\ event'.raised = "AuthError"
                    /\ ~sock'[conn[t]].open]_vars

====
